---------------------------- MODULE Spec2Model ----------------------------
(***************************************************************************)
(* A model of delorean_tsm/src/reader.rs: the TSM index reader             *)
(* (TSMIndexReader), the series-key parser (parse_tsm_key) and the block   *)
(* reader (TSMBlockReader::decode_block).                                  *)
(*                                                                         *)
(* A byte source (R: BufRead + Seek) is a record [buf, pos]: the bytes of  *)
(* the file and the read position, 0-based.  Bytes are naturals 0..255.    *)
(* Option<T> is a sequence of length 0 (None) or 1 (Some).                 *)
(* 64-bit and 32-bit block fields are kept as their big-endian digits in   *)
(* base 256 (a numeral of the value), so no value exceeds 32 bits.         *)
(***************************************************************************)
EXTENDS Integers, Sequences, FiniteSets, TLC

VARIABLES
    r,            \* the byte source the reader owns: [buf, pos]
    curr_offset,  \* TSMIndexReader.curr_offset
    end_offset,   \* TSMIndexReader.end_offset
    curr,         \* TSMIndexReader.curr : Option<IndexEntry>
    next,         \* TSMIndexReader.next : Option<IndexEntry>
    phase,        \* "start" before try_new / new, then "open", "failed" or "aborted"
    out,          \* what the calls made so far returned, in order
    input,        \* what the file or the key was laid out from
    memo,         \* outcomes the external column decoders gave so far
    key,          \* the argument of parse_tsm_key
    parsed        \* Option<result of parse_tsm_key>

vars == <<r, curr_offset, end_offset, curr, next, phase, out, input, memo, key, parsed>>

----------------------------------------------------------------------------
(* Bounds of the model *)

\* series headers in an index
MaxSeries == 2
\* largest count field of a series header
MaxCount == 3
\* calls of next() that produce no entry (an error or the end) before the caller stops
MaxFruitless == 2

\* key lengths of the series headers laid out
KeyLens == 0..1
\* bytes cut off the end of the index section (a truncated index)
Cuts == 0..2
\* bytes of the data section in front of the index
DataLens == {1}

----------------------------------------------------------------------------
(* Helpers *)

Some(x) == <<x>>
None == <<>>

Min(a, b) == IF a < b THEN a ELSE b

RECURSIVE Flatten(_)
Flatten(ss) == IF ss = <<>> THEN <<>> ELSE Head(ss) \o Flatten(Tail(ss))

\* u16::from_be_bytes
u16_from_be_bytes(buf) == buf[1] * 256 + buf[2]

\* u64::from_be_bytes, as a number: only for values below 2^31
RECURSIVE u64_from_be_bytes(_)
u64_from_be_bytes(buf) ==
    IF buf = <<>> THEN 0
    ELSE u64_from_be_bytes(SubSeq(buf, 1, Len(buf) - 1)) * 256 + buf[Len(buf)]

\* The w big-endian bytes of n, for n < 65536
to_be_bytes(n, w) ==
    [i \in 1..w |-> IF i = w THEN n % 256
                    ELSE IF i = w - 1 THEN (n \div 256) % 256
                    ELSE 0]

----------------------------------------------------------------------------
(* The file layout read by TSMIndexReader *)

\* the key of the i-th series header: klen bytes
SeriesKey(i, klen) == [n \in 1..klen |-> 64 + i]

\* the block_type byte of the i-th series header: float and integer in turn
SeriesType(i) == i % 2

\* the j-th block record of the i-th series, as the Block it stands for
StoredBlock(i, j) ==
    [min_time |-> to_be_bytes(16 * i + j, 8),
     max_time |-> to_be_bytes(16 * i + j + 8, 8),
     offset   |-> to_be_bytes(29 * j, 8),
     size     |-> to_be_bytes(1, 4)]

\* a block record: 28 bytes
BlockRecord(b) == b.min_time \o b.max_time \o b.offset \o b.size

\* a series header followed by its count block records
SeriesBlock(i, s) ==
    to_be_bytes(s.klen, 2) \o SeriesKey(i, s.klen) \o <<SeriesType(i)>>
      \o to_be_bytes(s.count, 2)
      \o Flatten([j \in 1..s.count |-> BlockRecord(StoredBlock(i, j))])

IndexSection(series) == Flatten([i \in 1..Len(series) |-> SeriesBlock(i, series[i])])

Series == [klen : KeyLens, count : 0..MaxCount]

SeriesLists == UNION {[1..n -> Series] : n \in 0..MaxSeries}

\* file := data_section || index_section (less its last cut bytes) || u64 index_offset
FileOf(i) ==
    LET index == IndexSection(i.series)
    IN  [n \in 1..i.data |-> 0]
          \o SubSeq(index, 1, Len(index) - Min(i.cut, Len(index)))
          \o to_be_bytes(i.index_offset, 8)

\* the inputs: a laid-out index, possibly cut short, with a trailer that
\* points at the index or past the end of the file; and a file too short to
\* hold a trailer
IndexInputs ==
    {[series |-> <<>>, cut |-> 0, data |-> 0, index_offset |-> 0, short |-> TRUE]}
    \cup UNION { UNION { UNION {
           { [series |-> s, cut |-> c, data |-> d, index_offset |-> o, short |-> FALSE] :
               o \in {d, d + Len(IndexSection(s)) - c + 9} } :
           c \in {x \in Cuts : x <= Len(IndexSection(s))} } :
           d \in DataLens } :
           s \in SeriesLists }

----------------------------------------------------------------------------
(* TSMIndexReader *)

\* a slip in the bookkeeping: the read is made and curr_offset is not advanced
read_exact_uncounted(buf, st, n, eof_moves) ==
    IF ~st.ok THEN st
    ELSE IF n = 0 \/ st.pos + n <= Len(buf)
    THEN [ok |-> TRUE, pos |-> st.pos + n, off |-> st.off,
          bytes |-> SubSeq(buf, st.pos + 1, st.pos + n)]
    ELSE [ok |-> FALSE,
          pos |-> IF eof_moves /\ st.pos < Len(buf) THEN Len(buf) ELSE st.pos,
          off |-> st.off, bytes |-> <<>>]

\* One read_exact of n bytes at the source's position followed by
\* curr_offset += n; a failed read returns early (the ? operator) and leaves
\* curr_offset alone.  The position a failed read leaves is not specified by
\* Read::read_exact: eof_moves says whether it has consumed the rest.
read_exact(buf, st, n, eof_moves) ==
    IF ~st.ok THEN st
    ELSE IF n = 0 \/ st.pos + n <= Len(buf)
    THEN [ok |-> TRUE, pos |-> st.pos + n, off |-> st.off + n,
          bytes |-> SubSeq(buf, st.pos + 1, st.pos + n)]
    ELSE [ok |-> FALSE,
          pos |-> IF eof_moves /\ st.pos < Len(buf) THEN Len(buf) ELSE st.pos,
          off |-> st.off, bytes |-> <<>>]

\* fn next_block_entry(&mut self) -> Result<Block, TSMError>
\* st is [ok, pos, off]: the source's position and curr_offset on entry
next_block_entry(buf, st, eof_moves) ==
    LET s1 == read_exact(buf, st, 8, eof_moves)   \* min_time
        s2 == read_exact(buf, s1, 8, eof_moves)   \* max_time
        s3 == read_exact(buf, s2, 8, eof_moves)   \* offset
        s4 == read_exact(buf, s3, 4, eof_moves)   \* size
    IN  [ok |-> s4.ok, pos |-> s4.pos, off |-> s4.off,
         val |-> IF s4.ok
                 THEN [min_time |-> s1.bytes, max_time |-> s2.bytes,
                       offset |-> s3.bytes, size |-> s4.bytes]
                 ELSE <<>>]

\* fn next_index_entry(&mut self) -> Result<IndexEntry, TSMError>
next_index_entry(buf, st, eof_moves) ==
    LET s1 == read_exact(buf, st, 2, eof_moves)   \* key_len
        key_len == IF s1.ok THEN u16_from_be_bytes(s1.bytes) ELSE 0
        s2 == read_exact(buf, s1, key_len, eof_moves)   \* key_bytes
        s3 == read_exact(buf, s2, 1, eof_moves)   \* block_type
        s4 == read_exact(buf, s3, 2, eof_moves)   \* count
        b  == next_block_entry(buf, s4, eof_moves)
    IN  [ok |-> b.ok, pos |-> b.pos, off |-> b.off,
         val |-> IF b.ok
                 THEN [key |-> s2.bytes,
                       block_type |-> s3.bytes[1],
                       count |-> u16_from_be_bytes(s4.bytes),
                       curr_block |-> 1,
                       block |-> b.val]
                 ELSE <<>>]

\* what one call of next() returned
Ok(e) == [tag |-> "Ok", item |-> Some(e)]
Err == [tag |-> "Err", item |-> None]
End == [tag |-> "None", item |-> None]

Fruitless == Cardinality({n \in 1..Len(out) : out[n].tag # "Ok"})

\* pub fn try_new(mut r: R, len: usize) -> Result<Self, TSMError>
\* len is the length of the file.  Seeking to 8 bytes before the end fails on
\* a file shorter than 8 bytes; seeking past the end does not fail.
TryNew ==
    /\ phase = "start"
    /\ IF Len(r.buf) < 8
       THEN /\ phase' = "failed"
            /\ UNCHANGED <<r, curr_offset, end_offset>>
       ELSE LET buf == SubSeq(r.buf, Len(r.buf) - 7, Len(r.buf))
                index_offset == u64_from_be_bytes(buf)
            IN  /\ r' = [r EXCEPT !.pos = index_offset]
                /\ curr_offset' = index_offset
                /\ end_offset' = Len(r.buf) - 8
                /\ phase' = "open"
    /\ curr' = None
    /\ next' = None
    /\ UNCHANGED <<out, input, memo, key, parsed>>

\* the reader after a step of next() that read from the source
Advance(res, entry) ==
    /\ r' = [r EXCEPT !.pos = res.pos]
    /\ curr_offset' = res.off
    /\ IF res.ok
       THEN /\ next' = Some(entry)
            /\ curr' = Some(entry)
            /\ out' = Append(out, Ok(entry))
       ELSE /\ UNCHANGED <<curr, next>>
            /\ out' = Append(out, Err)

\* a slip in the end test: "past the end" for "at the end"
AtEnd_Past(c, e) == c > e

\* a slip in the end test: "at or past the end" for "at the end"
AtEnd_OrPast(c, e) == c >= e

\* if self.curr_offset == self.end_offset { return None; }
AtEnd(c, e) == c = e

\* fn next(&mut self) -> Option<Result<IndexEntry, TSMError>>
NextCall ==
    /\ phase = "open"
    /\ Fruitless < MaxFruitless
    /\ IF AtEnd(curr_offset, end_offset)
       THEN \* end of entries
            /\ out' = Append(out, End)
            /\ UNCHANGED <<r, curr_offset, curr, next>>
       ELSE \E eof_moves \in BOOLEAN :
              LET st == [ok |-> TRUE, pos |-> r.pos, off |-> curr_offset]
              IN  IF curr # None /\ curr[1].curr_block < curr[1].count
                  THEN \* more block entries for this index entry
                       LET b == next_block_entry(r.buf, st, eof_moves)
                       IN  Advance(b, [curr[1] EXCEPT
                                         !.block = b.val,
                                         !.curr_block = curr[1].curr_block + 1])
                  ELSE \* the first entry, or no more block entries
                       LET e == next_index_entry(r.buf, st, eof_moves)
                       IN  Advance(e, e.val)
    /\ UNCHANGED <<end_offset, phase, input, memo, key, parsed>>

Init ==
    /\ input \in IndexInputs
    /\ r = [buf |-> IF input.short THEN <<0, 0, 0>> ELSE FileOf(input), pos |-> 0]
    /\ curr_offset = 0
    /\ end_offset = 0
    /\ curr = None
    /\ next = None
    /\ phase = "start"
    /\ out = <<>>
    /\ memo = {}
    /\ key = <<>>
    /\ parsed = None

Next == TryNew \/ NextCall

Spec == Init /\ [][Next]_vars

----------------------------------------------------------------------------
(* The index reader's claims *)

Last(s) == s[Len(s)]

IsPrefix(s, t) == Len(s) <= Len(t) /\ s = SubSeq(t, 1, Len(s))

\* the entries next() produced, in order
OkEntries ==
    LET oks == SelectSeq(out, LAMBDA x : x.tag = "Ok")
    IN  [n \in 1..Len(oks) |-> oks[n].item[1]]

\* what next() returned before it first reported the end
BeforeEnd ==
    LET ends == {n \in 1..Len(out) : out[n].tag = "None"}
    IN  IF ends = {} THEN out
        ELSE SubSeq(out, 1, (CHOOSE n \in ends : \A m \in ends : n <= m) - 1)

Exhausted == \E n \in 1..Len(out) : out[n].tag = "None"

\* the file holds the whole index section and its trailer points at it
Intact == ~input.short /\ input.cut = 0 /\ input.index_offset = input.data

PositiveCounts == \A i \in 1..Len(input.series) : input.series[i].count >= 1

\* the entries the index stands for: for each series header, in file order,
\* one entry per block record, in file order
SeriesEntries(i, s) ==
    [j \in 1..s.count |->
        [key |-> SeriesKey(i, s.klen), block_type |-> SeriesType(i),
         count |-> s.count, curr_block |-> j, block |-> StoredBlock(i, j)]]

ExpectedEntries == Flatten([i \in 1..Len(input.series) |-> SeriesEntries(i, input.series[i])])

RECURSIVE SumCounts(_)
SumCounts(series) ==
    IF series = <<>> THEN 0 ELSE Head(series).count + SumCounts(Tail(series))

\* C1: every IndexEntry next() produces has 1 <= curr_block <= count, for
\* every file content, a series header that declares count = 0 included.
C1_CursorWithinCount ==
    \A n \in 1..Len(out) :
        out[n].tag = "Ok" =>
            /\ 1 <= out[n].item[1].curr_block
            /\ out[n].item[1].curr_block <= out[n].item[1].count

\* C1, for what the code does: curr_block starts at 1 and is only stepped
\* while below count, so an entry has 1 <= curr_block <= max(count, 1).
C1_CursorWithinCountOrOne ==
    \A n \in 1..Len(out) :
        out[n].tag = "Ok" =>
            /\ 1 <= out[n].item[1].curr_block
            /\ \/ out[n].item[1].curr_block <= out[n].item[1].count
               \/ out[n].item[1].curr_block = 1

\* C2: for each series header with count = k the iteration yields exactly k
\* consecutive entries with that header's key, block_type and count, with
\* curr_block 1, 2, ..., k and the i-th carrying the i-th stored block record.
C2_SeriesYieldsItsBlocks ==
    Intact =>
        /\ IsPrefix(OkEntries, ExpectedEntries)
        /\ Exhausted => OkEntries = ExpectedEntries

\* C2 where every series header declares count >= 1
C2_PositiveCountsYieldTheirBlocks ==
    (Intact /\ PositiveCounts) =>
        /\ IsPrefix(OkEntries, ExpectedEntries)
        /\ Exhausted => OkEntries = ExpectedEntries

\* C3: iterating to exhaustion over an index that holds B block records, B
\* the sum of the count fields, yields exactly B IndexEntries and nothing
\* else; an empty index section yields nothing.
C3_YieldsTotalBlocks ==
    (Intact /\ Exhausted) =>
        /\ Len(BeforeEnd) = SumCounts(input.series)
        /\ \A n \in 1..Len(BeforeEnd) : BeforeEnd[n].tag = "Ok"

\* C3 where every series header declares count >= 1
C3_PositiveCountsYieldTotalBlocks ==
    (Intact /\ PositiveCounts /\ Exhausted) =>
        /\ Len(BeforeEnd) = SumCounts(input.series)
        /\ \A n \in 1..Len(BeforeEnd) : BeforeEnd[n].tag = "Ok"

\* the file is as a writer lays it out: whole, and every series has a block
WellFormed == Intact /\ PositiveCounts

\* C4: once curr_offset has reached end_offset (the file's length less 8),
\* next() produces nothing, reads nothing from the source and leaves the
\* reader as it is, so every later next() produces nothing too; and over a
\* well-formed file the calls of next() get there: the first B calls each
\* produce an entry and every call after them produces nothing.
C4_DoneIsAbsorbing ==
    /\ [][(phase = "open" /\ out' # out) =>
            /\ (curr_offset = end_offset) =>
                   /\ out' = Append(out, End)
                   /\ UNCHANGED <<r, curr_offset, end_offset, curr, next, phase>>
            /\ (out # <<>> /\ Last(out) = End) => Last(out') = End]_vars
    /\ [](WellFormed /\ phase = "open" =>
            /\ end_offset = Len(r.buf) - 8
            /\ \A n \in 1..Len(out) :
                  out[n].tag = IF n <= SumCounts(input.series) THEN "Ok" ELSE "None"
            /\ Len(out) >= SumCounts(input.series) => curr_offset = end_offset)

\* C4's case: entries were produced, then the end was reported twice
C4_Witness ==
    /\ Len(out) >= 4
    /\ out[1].tag = "Ok"
    /\ out[Len(out) - 2].tag = "Ok"
    /\ out[Len(out) - 1] = End
    /\ Last(out) = End

\* the trailer's index offset points past the end of the file
PastEnd == ~input.short /\ input.index_offset > Len(r.buf)

\* C11: when the last 8 bytes of the file hold an index offset past the end
\* of the file, try_new succeeds (the reader is positioned at that offset)
\* and the first next() returns an error: not an entry, not the end.
C11_PastEndTrailerFailsFirstNext ==
    PastEnd =>
        /\ phase # "failed"
        /\ phase = "open" =>
              /\ curr_offset = input.index_offset
              /\ curr_offset > end_offset
              /\ out # <<>> => out[1] = Err

\* C11's case: the reader was built over such a file and next() was called
C11_Witness ==
    /\ PastEnd
    /\ phase = "open"
    /\ out # <<>>
    /\ out[1] = Err

\* the bytes of the records behind a sequence of entries: 28 for a block
\* record, and 2 + key_len + 1 + 2 more where the entry starts a series
RECURSIVE RecordBytes(_)
RecordBytes(entries) ==
    IF entries = <<>> THEN 0
    ELSE LET e == Head(entries)
         IN  28 + (IF e.curr_block = 1 THEN 2 + Len(e.key) + 1 + 2 ELSE 0)
                + RecordBytes(Tail(entries))

AllOk == \A n \in 1..Len(out) : out[n].tag = "Ok"

\* C12: after try_new and after every successful next(), curr_offset is the
\* source's read position, and is the index's start plus the bytes of the
\* records consumed so far; a next() that starts a series advances it by
\* 2 + key_len + 1 + 2 + 28, a next() inside a series (curr_block < count)
\* advances it by exactly 28 and keeps the series header it has; curr_offset
\* never decreases; and next() reports the end only at curr_offset =
\* end_offset.
C12_OffsetTracksPosition ==
    /\ [][/\ (phase = "start" /\ phase' = "open") =>
               /\ curr_offset' = r'.pos
               /\ curr_offset' = input.index_offset
          /\ (phase = "open" /\ out' # out) =>
               /\ curr_offset' >= curr_offset
               /\ Last(out') = End => curr_offset = end_offset
               /\ Last(out').tag = "Ok" =>
                     LET e == Last(out').item[1]
                     IN  /\ curr_offset' = r'.pos
                         /\ IF curr # None /\ curr[1].curr_block < curr[1].count
                            THEN /\ curr_offset' = curr_offset + 28
                                 /\ r'.pos = r.pos + 28
                                 /\ e.key = curr[1].key
                                 /\ e.block_type = curr[1].block_type
                                 /\ e.count = curr[1].count
                                 /\ e.curr_block = curr[1].curr_block + 1
                            ELSE /\ curr_offset' = curr_offset + 2 + Len(e.key) + 1 + 2 + 28
                                 /\ r'.pos = r.pos + 2 + Len(e.key) + 1 + 2 + 28
                                 /\ e.curr_block = 1]_vars
    /\ []((phase = "open" /\ AllOk) =>
            /\ curr_offset = r.pos
            /\ curr_offset = input.index_offset + RecordBytes(OkEntries))

\* C12's case: a series was started, a step was made inside it, a further
\* series with a key was started, and the end was reported
C12_Witness ==
    /\ phase = "open"
    /\ Len(out) >= 4
    /\ Last(out) = End
    /\ \A n \in 1..(Len(out) - 1) : out[n].tag = "Ok"
    /\ \E n \in 1..(Len(out) - 1) : out[n].item[1].curr_block >= 2
    /\ \E n \in 2..(Len(out) - 1) :
          out[n].item[1].curr_block = 1 /\ Len(out[n].item[1].key) = 1

----------------------------------------------------------------------------
(* parse_tsm_key *)

\* tags of a series key laid out
MaxTags == 2

Comma == 44
Equals == 61
FieldTagByte == 255
\* "#!~#"
FieldDelimiter == <<35, 33, 126, 35>>

\* what parse_tsm_key returned: a ParsedTSMKey, a TSMError, or no return at
\* all (a panic)
KeyOk(p) == [tag |-> "Ok", item |-> Some(p)]
KeyErr == [tag |-> "Err", item |-> None]
KeyAbort == [tag |-> "Abort", item |-> None]

\* A String is the sequence of its chars (code points); its len() is the
\* number of bytes of its UTF-8 encoding.
char_len_utf8(c) == IF c < 128 THEN 1 ELSE IF c < 2048 THEN 2 ELSE 3

RECURSIVE str_len(_)
str_len(str) == IF str = <<>> THEN 0 ELSE char_len_utf8(Head(str)) + str_len(Tail(str))

\* str::is_char_boundary(n)
is_char_boundary(str, n) == \E m \in 0..Len(str) : str_len(SubSeq(str, 1, m)) = n

\* str::split_at(n).0, for n a char boundary
split_at_head(str, n) ==
    SubSeq(str, 1, CHOOSE m \in 0..Len(str) : str_len(SubSeq(str, 1, m)) = n)

\* String::from_utf8 over one- and two-byte sequences: None for bytes that are
\* not UTF-8.  (Lead bytes of longer sequences, 0xE0..0xF4, are not among the
\* bytes of the keys laid out below.)
RECURSIVE from_utf8(_)
from_utf8(bytes) ==
    IF bytes = <<>> THEN Some(<<>>)
    ELSE IF bytes[1] < 128
    THEN LET rest == from_utf8(Tail(bytes))
         IN  IF rest = None THEN None ELSE Some(<<bytes[1]>> \o rest[1])
    ELSE IF bytes[1] >= 194 /\ bytes[1] <= 223 /\ Len(bytes) >= 2
            /\ bytes[2] >= 128 /\ bytes[2] <= 191
    THEN LET rest == from_utf8(SubSeq(bytes, 3, Len(bytes)))
         IN  IF rest = None THEN None
             ELSE Some(<<(bytes[1] - 192) * 64 + (bytes[2] - 128)>> \o rest[1])
    ELSE None

\* the loop over rem_key.drain(1..): st is [reading_key, key, value, tagset]
RECURSIVE scan_tags(_, _)
scan_tags(bytes, st) ==
    IF bytes = <<>> THEN st
    ELSE LET byte == Head(bytes)
         IN  scan_tags(Tail(bytes),
               IF byte = Comma
               THEN [reading_key |-> TRUE,
                     tagset |-> Append(st.tagset, <<st.key, st.value>>),
                     key |-> <<>>, value |-> <<>>]
               ELSE IF byte = Equals
               THEN [st EXCEPT !.reading_key = FALSE]
               ELSE IF st.reading_key
               THEN [st EXCEPT !.key = Append(st.key, byte)]     \* byte as char
               ELSE [st EXCEPT !.value = Append(st.value, byte)])

\* the number of leading bytes of k that are not a comma
RECURSIVE until_comma(_)
until_comma(k) ==
    IF k = <<>> \/ Head(k) = Comma THEN 0 ELSE 1 + until_comma(Tail(k))

\* a slip: the halving left out
field_trim_length_whole(value_len) == value_len - 4

\* the trimmed field: (value.len() - 4) / 2
field_trim_length(value_len) == (value_len - 4) \div 2

\* fn parse_tsm_key(mut key: Vec<u8>) -> Result<ParsedTSMKey, TSMError>
parse_tsm_key(k) ==
    IF Len(k) < 8 + 8 + 1 + 1 + 1
    THEN KeyAbort   \* Vec::drain panics: the range starts past the end
    ELSE
    LET key1 == SubSeq(k, 8 + 8 + 1 + 1 + 1 + 1, Len(k))
        i == until_comma(key1)
        rem_key == SubSeq(key1, i + 1, Len(key1))
        measurement == from_utf8(SubSeq(key1, 1, i))
    IN  IF measurement = None THEN KeyErr
        ELSE IF Len(rem_key) < 1
        THEN KeyAbort   \* rem_key.drain(1..) panics: the range starts past the end
        ELSE
        LET st == scan_tags(Tail(rem_key),
                            [reading_key |-> TRUE, tagset |-> <<>>,
                             key |-> <<>>, value |-> <<>>])
            value_len == str_len(st.value)
        IN  IF value_len < 4
            THEN KeyAbort   \* value.len() - 4 overflows, or split_at past the end
            ELSE IF ~is_char_boundary(st.value, field_trim_length(value_len))
            THEN KeyAbort   \* split_at panics off a char boundary
            ELSE KeyOk([measurement |-> measurement[1],
                        tagset |-> st.tagset,
                        field_key |-> split_at_head(st.value,
                                                    field_trim_length(value_len))])

\* The series keys laid out:
\* [8B org_id][8B bucket_id] , 0x00 = MEASUREMENT (, name = value)* , 0xFF = FIELD_BLOB
KeyPrefix == [n \in 1..16 |-> n] \o <<Comma, 0, Equals>>

TagBytes(tags) ==
    Flatten([n \in 1..Len(tags) |-> <<Comma>> \o tags[n][1] \o <<Equals>> \o tags[n][2]])

KeyOf(i) ==
    KeyPrefix \o i.measurement \o TagBytes(i.tags)
      \o <<Comma, FieldTagByte, Equals>> \o i.blob

\* "m", "cpu", the empty name, and bytes that are not UTF-8
Measurements == {<<109>>, <<99, 112, 117>>, <<>>, <<109, 255>>}
TagNames == {<<104>>, <<>>}
TagValues == {<<118, 49>>, <<233>>}
TagLists == UNION {[1..n -> TagNames \X TagValues] : n \in 0..MaxTags}
\* "f", "sum", a name with a byte above 127, the empty name
FieldNames == {<<102>>, <<115, 117, 109>>, <<102, 233>>, <<>>}
\* <field_name><4-byte delimiter><field_name>, and blobs that are not
FieldBlobs ==
    {f \o FieldDelimiter \o f : f \in FieldNames}
    \cup {<<>>, <<102>>, <<35, 33, 126>>, <<233, 233>>, <<233, 35, 33, 126, 35>>,
          <<102, 103, 35, 33, 126, 35, 102>>}

KeyInputs ==
    [kind : {"layout"}, measurement : Measurements, tags : TagLists, blob : FieldBlobs]
    \cup [kind : {"cut"}, len : 0..21]

\* a key cut to len bytes
CutKey(len) ==
    SubSeq(KeyOf([measurement |-> <<109>>, tags |-> <<>>,
                  blob |-> <<102>> \o FieldDelimiter \o <<102>>]), 1, len)

ParseKey ==
    /\ phase = "start"
    /\ parsed = None
    /\ parsed' = Some(parse_tsm_key(key))
    /\ phase' = "open"
    /\ UNCHANGED <<r, curr_offset, end_offset, curr, next, out, input, memo, key>>

InitKey ==
    /\ input \in KeyInputs
    /\ key = IF input.kind = "cut" THEN CutKey(input.len) ELSE KeyOf(input)
    /\ parsed = None
    /\ r = [buf |-> <<>>, pos |-> 0]
    /\ curr_offset = 0
    /\ end_offset = 0
    /\ curr = None
    /\ next = None
    /\ phase = "start"
    /\ out = <<>>
    /\ memo = {}

NextKey == ParseKey

SpecKey == InitKey /\ [][NextKey]_vars

----------------------------------------------------------------------------
(* The key parser's claims *)

IsAscii(bytes) == \A n \in 1..Len(bytes) : bytes[n] < 128

\* <field_name><4-byte delimiter><field_name>
FieldBlobForm(blob) ==
    \E f \in FieldNames : blob = f \o FieldDelimiter \o f

\* C8: parse_tsm_key returns a DecodeError value, rather than aborting or
\* returning a ParsedKey, for every key shorter than 20 bytes and for every
\* key whose FIELD_BLOB is shorter than 4 bytes.
C8_ShortKeysAreDecodeErrors ==
    (/\ parsed # None
     /\ \/ Len(key) < 20
        \/ input.kind = "layout" /\ Len(input.blob) < 4)
    => parsed[1] = KeyErr

\* C9: for a key of the layout, with a UTF-8 measurement and a FIELD_BLOB
\* that is a field name, the delimiter and the field name again (or plain
\* ASCII of at least 4 bytes), parse_tsm_key returns the measurement, the
\* tag pairs before the 0xFF pair in file order, and the first
\* (|FIELD_BLOB| - 4) / 2 bytes of FIELD_BLOB as the field.
C9_LayoutKeyParses ==
    (/\ parsed # None
     /\ input.kind = "layout"
     /\ IsAscii(input.measurement)
     /\ \/ FieldBlobForm(input.blob)
        \/ IsAscii(input.blob) /\ Len(input.blob) >= 4)
    => parsed[1] = KeyOk([measurement |-> input.measurement,
                          tagset |-> input.tags,
                          field_key |-> SubSeq(input.blob, 1,
                                               (Len(input.blob) - 4) \div 2)])

\* C9's case: a key with two tags and the field blob "sum#!~#sum" was parsed
C9_Witness ==
    /\ parsed # None
    /\ input.kind = "layout"
    /\ input.measurement = <<99, 112, 117>>
    /\ Len(input.tags) = 2
    /\ input.blob = <<115, 117, 109, 35, 33, 126, 35, 115, 117, 109>>
    /\ parsed[1].tag = "Ok"
    /\ parsed[1].item[1].field_key = <<115, 117, 109>>
    /\ Len(parsed[1].item[1].tagset) = 2

----------------------------------------------------------------------------
(* TSMBlockReader *)

\* calls of decode_block on one reader
MaxCalls == 2

F64_BLOCKTYPE_MARKER == 0
I64_BLOCKTYPE_MARKER == 1
BOOL_BLOCKTYPE_MARKER == 2
STRING_BLOCKTYPE_MARKER == 3
U64_BLOCKTYPE_MARKER == 4

\* What an external column decoder (timestamp::decode, float::decode_influxdb,
\* integer::decode) can make of the bytes it is handed: an error, or n values
\* appended to its output.
DecodeErr == [ok |-> FALSE, n |-> 0]
DecodeOk(n) == [ok |-> TRUE, n |-> n]
ValueCounts == 0..1
DecoderOutcomes == {DecodeErr} \cup {DecodeOk(n) : n \in ValueCounts}

\* u64::decode_var of the integer_encoding crate: the unsigned little-endian
\* base-128 number at the head of src and the number of bytes it took
RECURSIVE decode_var(_)
decode_var(src) ==
    IF src = <<>> THEN <<0, 0>>
    ELSE IF src[1] < 128 THEN <<src[1], 1>>
    ELSE LET rest == decode_var(Tail(src))
         IN  <<(src[1] % 128) + 128 * rest[1], 1 + rest[2]>>

\* what decode_block returned: a BlockData (its variant and the lengths of
\* ts and values), a TSMError (its description), or no return at all (a panic)
BlockOk(variant, ts, values) ==
    [tag |-> "Ok", variant |-> variant, ts |-> ts, values |-> values, description |-> ""]
BlockErr(description) ==
    [tag |-> "Err", variant |-> "", ts |-> 0, values |-> 0, description |-> description]
BlockAbort ==
    [tag |-> "Abort", variant |-> "", ts |-> 0, values |-> 0, description |-> ""]

\* a slip: the seek made relative to the current position
seek_from_current(pos, offset) == pos + offset

\* self.r.seek(SeekFrom::Start(block.offset))
seek_from_start(pos, offset) == offset

\* a call of an external decoder: which, on what bytes, with what outcome
Called(decoder, bytes, outcome) ==
    [decoder |-> decoder, bytes |-> bytes, outcome |-> outcome]

\* The external decoders are functions of the bytes they are handed.  dec
\* is what is known of them: the outcomes they gave so far (memo) and the
\* outcomes they give on an input not seen before (ts, values).
decode(dec, decoder, bytes) ==
    IF \E e \in dec.memo : e.decoder = decoder /\ e.bytes = bytes
    THEN (CHOOSE e \in dec.memo : e.decoder = decoder /\ e.bytes = bytes).outcome
    ELSE IF decoder = "timestamp" THEN dec.ts ELSE dec.values

\* the match on block_type, once the timestamps are decoded: ts values
\* decoded, data[idx..] left for the value decoder.  calls are the decoder
\* calls made.
decode_values(block_type, ts, rest, dec) ==
    IF block_type = F64_BLOCKTYPE_MARKER
    THEN LET values == decode(dec, "float", rest)
         IN  [result |-> IF ~values.ok THEN BlockErr("float decoder")
                         ELSE BlockOk("Float", ts, values.n),
              calls |-> {Called("float", rest, values)}]
    ELSE IF block_type = I64_BLOCKTYPE_MARKER
    THEN LET values == decode(dec, "integer", rest)
         IN  [result |-> IF ~values.ok THEN BlockErr("integer decoder")
                         ELSE BlockOk("Integer", ts, values.n),
              calls |-> {Called("integer", rest, values)}]
    ELSE IF block_type = BOOL_BLOCKTYPE_MARKER
    THEN [result |-> BlockErr("bool block type unsupported"), calls |-> {}]
    ELSE IF block_type = STRING_BLOCKTYPE_MARKER
    THEN [result |-> BlockErr("string block type unsupported"), calls |-> {}]
    ELSE IF block_type = U64_BLOCKTYPE_MARKER
    THEN [result |-> BlockErr("unsigned integer block type unsupported"), calls |-> {}]
    ELSE [result |-> BlockErr("unsupported block type"), calls |-> {}]

\* pub fn decode_block(&mut self, block: &Block) -> Result<BlockData, TSMError>
\* rd is the reader's source, dec the external decoders; the result is
\* what the call returns, the position it leaves the source at and the
\* decoder calls it made.
decode_block(rd, block, eof_moves, dec) ==
    LET start == seek_from_start(rd.pos, block.offset)
        s1 == read_exact(rd.buf, [ok |-> TRUE, pos |-> start, off |-> 0],
                         block.size, eof_moves)
        data == s1.bytes
    IN  IF ~s1.ok THEN [result |-> BlockErr("io"), pos |-> s1.pos, calls |-> {}]
        ELSE IF Len(data) < 4 + 1
        THEN \* data[idx] is out of bounds
             [result |-> BlockAbort, pos |-> s1.pos, calls |-> {}]
        ELSE
        LET block_type == data[4 + 1]
            var == decode_var(SubSeq(data, 4 + 1 + 1, Len(data)))
            len == var[1]
            idx == 4 + 1 + var[2]
        IN  IF idx + len > Len(data)
            THEN \* data[idx..idx + len] is out of range
                 [result |-> BlockAbort, pos |-> s1.pos, calls |-> {}]
            ELSE
            LET ts_bytes == SubSeq(data, idx + 1, idx + len)
                ts == decode(dec, "timestamp", ts_bytes)
                v == decode_values(block_type, ts.n,
                                   SubSeq(data, idx + len + 1, Len(data)), dec)
            IN  IF ~ts.ok
                THEN [result |-> BlockErr("timestamp decoder"), pos |-> s1.pos,
                      calls |-> {Called("timestamp", ts_bytes, ts)}]
                ELSE [result |-> v.result, pos |-> s1.pos,
                      calls |-> {Called("timestamp", ts_bytes, ts)} \cup v.calls]

\* The block files: a payload
\*   u32 crc32 ; u8 block_type ; varint ts_len ; ts_stream ; value_stream
\* laid out at offset 0
BlockTypes == 0..5
TsLens == {<<1>>, <<3>>, <<129, 0>>}
BlockFiles == {<<0, 0, 0, 0, t>> \o l \o <<7, 9>> : t \in BlockTypes, l \in TsLens}

\* the descriptors decode_block is called with
BlockOffsets == 0..1
BlockSizes == 4..9
Blocks ==
    [min_time : {<<0, 0, 0, 0, 0, 0, 0, 0>>}, max_time : {<<0, 0, 0, 0, 0, 0, 0, 0>>},
     offset : BlockOffsets, size : BlockSizes]

\* One call of decode_block: on any descriptor, with any outcome of the
\* decoders on an input they have not seen before.
DecodeCall ==
    /\ phase = "open"
    /\ Len(out) < MaxCalls
    /\ \E block \in Blocks, eof_moves \in BOOLEAN,
          ts_outcome \in DecoderOutcomes, values_outcome \in DecoderOutcomes :
         LET res == decode_block(r, block, eof_moves,
                       [memo |-> memo, ts |-> ts_outcome, values |-> values_outcome])
         IN  /\ memo' = memo \cup res.calls
             /\ r' = [r EXCEPT !.pos = res.pos]
             /\ out' = Append(out, [block |-> block, pos |-> r.pos, result |-> res.result])
             /\ phase' = IF res.result.tag = "Abort" THEN "aborted" ELSE "open"
    /\ UNCHANGED <<curr_offset, end_offset, curr, next, input, key, parsed>>

\* TSMBlockReader::new(r)
InitBlock ==
    /\ r \in [buf : BlockFiles, pos : {0}]
    /\ phase = "open"
    /\ out = <<>>
    /\ memo = {}
    /\ input = <<>>
    /\ curr_offset = 0
    /\ end_offset = 0
    /\ curr = None
    /\ next = None
    /\ key = <<>>
    /\ parsed = None

NextBlock == DecodeCall

SpecBlock == InitBlock /\ [][NextBlock]_vars

----------------------------------------------------------------------------
(* The block reader's claims *)

\* the bytes the descriptor names are in the file
Available(block) == block.offset + block.size <= Len(r.buf)

\* the type marker of the payload the descriptor names: the byte after the
\* 4-byte checksum
TypeMarker(block) == r.buf[block.offset + 4 + 1]

UnsupportedDescriptions ==
    {"bool block type unsupported", "string block type unsupported",
     "unsigned integer block type unsupported"}

\* C5: whenever decode_block returns a BlockData, its ts and values have the
\* same length, whatever the payload and whatever the decoders make of it.
C5_ColumnsHaveEqualLengths ==
    \A n \in 1..Len(out) :
        out[n].result.tag = "Ok" => out[n].result.ts = out[n].result.values

\* C6: for every payload whose type marker is 2, 3 or 4, decode_block
\* returns the unsupported-block-type error and no BlockData, whatever the
\* bytes of the timestamp and value sub-blocks.
C6_UnsupportedTypesAreRejected ==
    \A n \in 1..Len(out) :
        (/\ Available(out[n].block)
         /\ out[n].block.size >= 5
         /\ TypeMarker(out[n].block) \in
               {BOOL_BLOCKTYPE_MARKER, STRING_BLOCKTYPE_MARKER, U64_BLOCKTYPE_MARKER})
        => /\ out[n].result.tag = "Err"
           /\ out[n].result.description \in UnsupportedDescriptions

\* C6, for what the code does: such a payload never yields a BlockData
C6_UnsupportedTypesYieldNoBlockData ==
    \A n \in 1..Len(out) :
        (/\ Available(out[n].block)
         /\ out[n].block.size >= 5
         /\ TypeMarker(out[n].block) \in
               {BOOL_BLOCKTYPE_MARKER, STRING_BLOCKTYPE_MARKER, U64_BLOCKTYPE_MARKER})
        => out[n].result.tag # "Ok"

\* C7: decode_block returns a BlockData or an error and never aborts; a
\* descriptor whose size exceeds the bytes available yields an error, and so
\* does a payload shorter than its 5-byte header or one whose ts_len exceeds
\* the bytes that follow it.
C7_DecodeBlockNeverAborts ==
    \A n \in 1..Len(out) :
        /\ out[n].result.tag \in {"Ok", "Err"}
        /\ (~Available(out[n].block) \/ out[n].block.size < 5)
              => out[n].result.tag = "Err"

\* C7, for what the code does: a descriptor whose size exceeds the bytes
\* available yields the error of the failed read
C7_TruncatedBlockIsAnError ==
    \A n \in 1..Len(out) :
        ~Available(out[n].block) => out[n].result = BlockErr("io")

\* C10: whatever calls came before, errors included, decode_block on a
\* descriptor returns what it returns as the first call on a fresh reader
\* over the same bytes (the decoders being functions of their input).
C10_DecodeIsIndependentOfHistory ==
    \A n \in 1..Len(out) :
        out[n].result =
            decode_block([buf |-> r.buf, pos |-> 0], out[n].block, FALSE,
                         [memo |-> memo, ts |-> DecodeErr, values |-> DecodeErr]).result

\* C10's case: a call that failed left the source away from its start, and
\* the next call decoded a block
C10_Witness ==
    /\ Len(out) = 2
    /\ out[1].result.tag = "Err"
    /\ out[2].pos > 0
    /\ out[2].block.offset > 0
    /\ out[2].result.tag = "Ok"

====
